---- MODULE Spec2Model ----
(***************************************************************************)
(* Model of the backtester of src/src/backtester.py: the decision parser   *)
(* (parse_action), the trade executor (execute_trade), the simulation      *)
(* loop (run_backtest), the performance analysis (analyze_performance)     *)
(* and the batch driver of __main__, with the price source of              *)
(* src/src/tools.py.                                                       *)
(*                                                                         *)
(* Money and quantities are integers.  Python values that reach the        *)
(* executor are tagged with their type, because the executor's             *)
(* comparisons and the progress line's format specs behave differently     *)
(* for a str, a number and None.                                           *)
(***************************************************************************)
EXTENDS Integers, Sequences, FiniteSets, TLC

VARIABLES
    initial_capital,    \* self.initial_capital
    start_date,         \* self.start_date (a day number, day 0 is a Monday)
    end_date,           \* self.end_date
    portfolio,          \* self.portfolio: cash, stock and, once marked, portfolio_value
    portfolio_values,   \* self.portfolio_values: sequence of [Date, Value]
    pc,                 \* position of run_backtest
    idx,                \* number of days of `dates` the current run has completed
    run_count,          \* how many times run_backtest has been invoked
    agent_output,       \* local of run_backtest: what the agent returned
    action,             \* local: parsed action (also execute_trade's argument)
    quantity,           \* local: parsed quantity (also execute_trade's argument)
    df,                 \* closes of the window the price source returned last
    current_price,      \* local: df.iloc[-1]['close']
    executed_quantity,  \* local: what execute_trade returned
    total_value,        \* local: cash + stock * current_price
    err,                \* the exception that left run_backtest or execute_trade
    pre,                \* history: the portfolio on entry to the last execute_trade
    day_start,          \* history: portfolio and record count at the loop head
    ncalls,             \* number of direct execute_trade calls made
    day_steps,          \* history: the external steps of the current day, in order
    agent_calls,        \* history: agent calls of the current run that have ended
    report,             \* what the last analyze_performance computed
    analyses,           \* number of analyze_performance calls made
    bpc,                \* position of the batch driver ("none": no driver)
    ticker_i,           \* batch driver: index of the current ticker
    performance,        \* rows of the table performance
    backup_performance, \* rows of the table backup_performance
    removed             \* history: the (ticker, date) keys deleted from performance

vars == <<initial_capital, start_date, end_date, portfolio, portfolio_values,
          pc, idx, run_count, agent_output, action, quantity, df,
          current_price, executed_quantity, total_value, err, pre, day_start, ncalls,
          day_steps, agent_calls, report, analyses, bpc, ticker_i, performance,
          backup_performance, removed>>

(***************************************************************************)
(* Bounds of the model.                                                    *)
(***************************************************************************)
MaxCapital == 3     \* initial_capital ranges over 0..MaxCapital
MaxPrice == 2       \* closes range over 1..MaxPrice
MaxQty == 2         \* requested quantities range over -1..MaxQty
FirstDay == 4       \* start_date and end_date range over FirstDay..MaxDay
MaxDay == 7         \* (day 4 is a Friday, day 7 the Monday after)
MaxRuns == 2        \* one Backtester's run_backtest is invoked at most MaxRuns times
MaxCalls == 3       \* at most MaxCalls direct execute_trade calls
MaxBars == 2        \* a price window holds at most MaxBars bars
MaxAnalyses == 2    \* analyze_performance is invoked at most MaxAnalyses times
MaxLen == 3         \* a bounded value series holds at most MaxLen records
MaxValue == 4       \* the values of a bounded value series range over 1..MaxValue
NumTickers == 2     \* the batch driver's list holds NumTickers distinct tickers

(***************************************************************************)
(* Python values, tagged with their type.                                  *)
(***************************************************************************)
PyStr(s) == [t |-> "str", s |-> s, n |-> 0]
PyNum(n) == [t |-> "num", s |-> "", n |-> n]
PyNone == [t |-> "null", s |-> "", n |-> 0]
PyList == [t |-> "list", s |-> "", n |-> 0]

Min(a, b) == IF a <= b THEN a ELSE b

(***************************************************************************)
(* The agent's output.  A text is a sequence of JSON tokens; the agent may *)
(* also hand back something that is no text at all (None).                 *)
(***************************************************************************)
Tok(k) == [tk |-> k, s |-> "", n |-> 0]
TStr(s) == [tk |-> "str", s |-> s, n |-> 0]
TNum(n) == [tk |-> "num", s |-> "", n |-> n]
TWord(s) == [tk |-> "word", s |-> s, n |-> 0]   \* a bare word: no JSON token

Text(toks) == [py |-> "str", toks |-> toks]
NoText == [py |-> "None", toks |-> <<>>]

\* {"action": a, "quantity": q} for element tokens a and q.
DecisionText(a, q) ==
    Text(<<Tok("{"), TStr("action"), Tok(":")>> \o a \o
         <<Tok(","), TStr("quantity"), Tok(":")>> \o q \o <<Tok("}")>>)

(***************************************************************************)
(* json.loads on the subset of JSON the model's texts use:                 *)
(*   value   ::= element | "{" "}" | "{" members "}"                       *)
(*   element ::= string | number | null | "[" "]"                          *)
(*   members ::= string ":" element ( "," string ":" element )*            *)
(* anything else raises JSONDecodeError.                                   *)
(***************************************************************************)
\* The element starting at toks[i]: its value and the index after it.
ParseElement(toks, i) ==
    IF i > Len(toks) THEN [ok |-> FALSE, v |-> PyNone, next |-> i]
    ELSE IF toks[i].tk = "str" THEN [ok |-> TRUE, v |-> PyStr(toks[i].s), next |-> i + 1]
    ELSE IF toks[i].tk = "num" THEN [ok |-> TRUE, v |-> PyNum(toks[i].n), next |-> i + 1]
    ELSE IF toks[i].tk = "null" THEN [ok |-> TRUE, v |-> PyNone, next |-> i + 1]
    ELSE IF toks[i].tk = "[" /\ i + 1 <= Len(toks) /\ toks[i + 1].tk = "]"
         THEN [ok |-> TRUE, v |-> PyList, next |-> i + 2]
    ELSE [ok |-> FALSE, v |-> PyNone, next |-> i]

\* The members from toks[i] up to the closing brace, appended to acc.
RECURSIVE ParseMembers(_, _, _)
ParseMembers(toks, i, acc) ==
    IF i + 2 > Len(toks) \/ toks[i].tk # "str" \/ toks[i + 1].tk # ":"
    THEN [ok |-> FALSE, members |-> <<>>]
    ELSE LET e == ParseElement(toks, i + 2)
             got == Append(acc, [k |-> toks[i].s, v |-> e.v])
         IN  IF ~e.ok \/ e.next > Len(toks) THEN [ok |-> FALSE, members |-> <<>>]
             ELSE IF toks[e.next].tk = "}"
                  THEN [ok |-> e.next = Len(toks), members |-> got]
             ELSE IF toks[e.next].tk = ","
                  THEN ParseMembers(toks, e.next + 1, got)
             ELSE [ok |-> FALSE, members |-> <<>>]

\* json.loads(output): raised is "" or the exception's name.
JsonLoads(output) ==
    LET toks == output.toks
        fail(e) == [raised |-> e, t |-> "null", v |-> PyNone, members |-> <<>>]
    IN  IF output.py # "str" THEN fail("TypeError")
        ELSE IF Len(toks) = 0 THEN fail("JSONDecodeError")
        ELSE IF toks[1].tk = "{"
             THEN IF Len(toks) = 2 /\ toks[2].tk = "}"
                  THEN [raised |-> "", t |-> "obj", v |-> PyNone, members |-> <<>>]
                  ELSE LET m == ParseMembers(toks, 2, <<>>)
                       IN  IF m.ok
                           THEN [raised |-> "", t |-> "obj", v |-> PyNone,
                                 members |-> m.members]
                           ELSE fail("JSONDecodeError")
        ELSE LET e == ParseElement(toks, 1)
             IN  IF e.ok /\ e.next = Len(toks) + 1
                 THEN [raised |-> "", t |-> e.v.t, v |-> e.v, members |-> <<>>]
                 ELSE fail("JSONDecodeError")

\* decision[key]: a dict gives the value of the key's last member or raises
\* KeyError; a str, a number, None or a list raises TypeError.
Subscript(decision, key) ==
    IF decision.t # "obj" THEN [raised |-> "TypeError", v |-> PyNone]
    ELSE LET at == {i \in 1..Len(decision.members) : decision.members[i].k = key}
         IN  IF at = {} THEN [raised |-> "KeyError", v |-> PyNone]
             ELSE [raised |-> "",
                   v |-> decision.members[CHOOSE i \in at : \A j \in at : j <= i].v]

\* Backtester.parse_action: any exception gives ("hold", 0).
parse_action(output) ==
    LET decision == JsonLoads(output)
        a == Subscript(decision, "action")
        q == Subscript(decision, "quantity")
    IN  IF decision.raised # "" \/ a.raised # "" \/ q.raised # ""
        THEN [action |-> PyStr("hold"), quantity |-> PyNum(0)]
        ELSE [action |-> a.v, quantity |-> q.v]

(***************************************************************************)
(* Backtester.execute_trade.                                               *)
(***************************************************************************)
\* action == name
ActionIs(a, name) == a.t = "str" /\ a.s = name

\* `quantity > 0` raises TypeError unless quantity is a number.
ComparisonRaises(q) == q.t # "num"

\* A variant of Positive that only rejects zero.
NonZero(q) == q.n # 0

\* quantity > 0, for a number
Positive(q) == q.n > 0

\* A variant of Cost that leaves the price out.
CostWithoutPrice(q, price) == q

\* cost = quantity * current_price
Cost(q, price) == q * price

\* A variant of MaxAffordable that rounds up.
MaxAffordableRoundedUp(cash, price) == (cash + price - 1) \div price

\* max_quantity = self.portfolio["cash"] // current_price
MaxAffordable(cash, price) == cash \div price

\* A variant of SellClamp that sells what was asked.
SellUnclamped(q, stock) == q

\* quantity = min(quantity, self.portfolio["stock"])
SellClamp(q, stock) == Min(q, stock)

\* A variant of Proceeds that charges a fee of 1 on a sale.
ProceedsLessFee(q, price) == q * price - 1

\* A variant of Proceeds that leaves the price out.
ProceedsWithoutPrice(q, price) == q

\* cash credited by a sale: quantity * current_price
Proceeds(q, price) == q * price

\* What a call does: the portfolio after it, the value returned, and the
\* exception raised ("" when it returns).  Only cash and stock are written.
execute_trade(pf, a, q, price) ==
    LET same(r) == [portfolio |-> pf, ret |-> r, raised |-> ""]
        fill(dstock, dcash, r) ==
            [portfolio |-> [pf EXCEPT !.stock = @ + dstock, !.cash = @ + dcash],
             ret |-> r, raised |-> ""]
        sell_branch ==
            IF ~ActionIs(a, "sell") THEN same(0)
            ELSE IF ComparisonRaises(q)
                 THEN [portfolio |-> pf, ret |-> 0, raised |-> "TypeError"]
            ELSE IF ~Positive(q) THEN same(0)
            ELSE LET n == SellClamp(q.n, pf.stock)
                 IN  IF n > 0 THEN fill(-n, Proceeds(n, price), n) ELSE same(0)
    IN  IF ActionIs(a, "buy")
        THEN IF ComparisonRaises(q)
             THEN [portfolio |-> pf, ret |-> 0, raised |-> "TypeError"]
             ELSE IF Positive(q)
                  THEN IF Cost(q.n, price) <= pf.cash
                       THEN fill(q.n, -Cost(q.n, price), q.n)
                       ELSE LET m == MaxAffordable(pf.cash, price)
                            IN  IF m > 0 THEN fill(m, -(m * price), m) ELSE same(0)
                  ELSE sell_branch
        ELSE sell_branch

(***************************************************************************)
(* The inputs the model draws from.                                        *)
(***************************************************************************)
Prices == 1..MaxPrice
Quantities == -1..MaxQty

\* Arguments of a direct execute_trade call.
ActionArgs == {PyStr("buy"), PyStr("sell"), PyStr("hold"), PyStr("short"), PyNone}
QuantityArgs == {PyNum(n) : n \in Quantities} \cup {PyStr("1"), PyNone}

\* What the agent may hand back.
WellFormedOutputs ==
    {DecisionText(<<TStr(a)>>, <<TNum(q)>>) : a \in {"buy", "sell"}, q \in 1..MaxQty}
    \cup { DecisionText(<<TStr("hold")>>, <<TNum(0)>>),
           DecisionText(<<TStr("buy")>>, <<TNum(-1)>>),
           \* {"action": "hold", "action": "buy", "quantity": 1}
           Text(<<Tok("{"), TStr("action"), Tok(":"), TStr("hold"), Tok(","),
                  TStr("action"), Tok(":"), TStr("buy"), Tok(","),
                  TStr("quantity"), Tok(":"), TNum(1), Tok("}")>>) }

MalformedOutputs ==
    { NoText,                                               \* None
      Text(<<TWord("buy"), TNum(1)>>),                      \* buy 1
      Text(<<TStr("hold")>>),                               \* "hold"
      Text(<<Tok("["), Tok("]")>>),                         \* []
      Text(<<Tok("{"), TStr("quantity"), Tok(":"), TNum(1), Tok("}")>>),
      Text(<<Tok("{"), TStr("action"), Tok(":"), TStr("buy"), Tok("}")>>),
      Text(<<Tok("{"), TStr("action"), Tok(":"), TStr("buy"), Tok(","),
             TStr("quantity"), Tok(":"), TNum(1)>>),        \* no closing brace
      DecisionText(<<TStr("buy")>>, <<TStr("1")>>),         \* quantity "1"
      DecisionText(<<TStr("sell")>>, <<Tok("null")>>),      \* quantity null
      DecisionText(<<Tok("null")>>, <<TNum(1)>>),           \* action null
      DecisionText(<<TNum(1)>>, <<TNum(1)>>),               \* action 1
      DecisionText(<<TStr("short")>>, <<TNum(1)>>) }        \* action "short"

AgentOutputs == WellFormedOutputs \cup MalformedOutputs

\* The windows the price source may return: up to MaxBars closes, oldest first.
RECURSIVE SeqsUpTo(_, _)
SeqsUpTo(S, n) ==
    IF n = 0 THEN {<<>>}
    ELSE LET shorter == SeqsUpTo(S, n - 1)
         IN  shorter \cup {Append(w, x) : w \in shorter, x \in S}

Windows == SeqsUpTo(Prices, MaxBars)

(***************************************************************************)
(* pd.date_range(start_date, end_date, freq="B"): the weekdays of          *)
(* [start_date, end_date], ascending.  Day 0 is a Monday.                  *)
(***************************************************************************)
IsBusinessDay(d) == d % 7 < 5

RECURSIVE BusinessDays(_, _)
BusinessDays(from, to) ==
    IF from > to THEN <<>>
    ELSE IF IsBusinessDay(from) THEN <<from>> \o BusinessDays(from + 1, to)
    ELSE BusinessDays(from + 1, to)

dates == BusinessDays(start_date, end_date)

\* No analysis has been made.
NoReport == [raised |-> "none"]

(***************************************************************************)
(* Backtester.__init__                                                     *)
(***************************************************************************)
Init ==
    /\ initial_capital \in 0..MaxCapital
    /\ start_date \in FirstDay..MaxDay
    /\ end_date \in FirstDay..MaxDay
    /\ portfolio = [cash |-> initial_capital, stock |-> 0]
    /\ portfolio_values = <<>>
    /\ pc = "idle"
    /\ idx = 0
    /\ run_count = 0
    /\ agent_output = NoText
    /\ action = PyNone
    /\ quantity = PyNone
    /\ df = <<>>
    /\ current_price = 0
    /\ executed_quantity = 0
    /\ total_value = 0
    /\ err = ""
    /\ pre = [cash |-> initial_capital, stock |-> 0]
    /\ day_start = [cash |-> initial_capital, stock |-> 0, n |-> 0]
    /\ ncalls = 0
    /\ day_steps = <<>>
    /\ agent_calls = 0
    /\ report = NoReport
    /\ analyses = 0
    /\ bpc = "none"
    /\ ticker_i = 0
    /\ performance = {}
    /\ backup_performance = {}
    /\ removed = {}

config == <<initial_capital, start_date, end_date>>
run_locals == <<agent_output, df, total_value, day_start>>
run_state == <<portfolio_values, pc, idx, run_count>>
hist == <<day_steps, agent_calls>>
perf == <<report, analyses>>
batch == <<bpc, ticker_i, performance, backup_performance, removed>>

(***************************************************************************)
(* A caller invokes execute_trade directly.                                *)
(***************************************************************************)
ExecuteTradeCall ==
    /\ pc = "idle"
    /\ ncalls < MaxCalls
    /\ \E a \in ActionArgs, q \in QuantityArgs, price \in Prices :
          LET r == execute_trade(portfolio, a, q, price)
          IN  /\ action' = a
              /\ quantity' = q
              /\ current_price' = price
              /\ pre' = [cash |-> portfolio.cash, stock |-> portfolio.stock]
              /\ portfolio' = r.portfolio
              /\ executed_quantity' = IF r.raised = "" THEN r.ret ELSE executed_quantity
              /\ err' = r.raised
    /\ ncalls' = ncalls + 1
    /\ UNCHANGED <<config, hist, perf, batch, run_locals, run_state>>

NextExec == ExecuteTradeCall

\* execute_trade reads no date: one date range is enough here.
InitExec == Init /\ start_date = FirstDay /\ end_date = FirstDay

SpecExec == InitExec /\ [][NextExec]_vars

(***************************************************************************)
(* The price source: get_price_data -> get_prices, and df.iloc[-1].        *)
(***************************************************************************)
\* get_prices raises ValueError("No price data returned") on an empty frame.
GetPricesRaises(bars) == bars = <<>>

\* df.iloc[-1]['close']
LastClose(bars) == bars[Len(bars)]

\* A variant of TotalValue that leaves the position out.
CashOnly(pf, price) == pf.cash

\* total_value = cash + stock * current_price
TotalValue(pf, price) == pf.cash + pf.stock * price

\* The progress line formats action with the spec '<6': None and a list
\* raise TypeError, a str and a number are formatted.
FormatRaises(a) == a.t \in {"null", "list"}

Abort(e) == pc' = "aborted" /\ err' = e

(***************************************************************************)
(* Backtester.run_backtest, one action per step of the loop body.          *)
(***************************************************************************)
\* Entry of run_backtest: the loop starts at the first day of `dates`, with
\* the portfolio and the records the Backtester holds at that moment.
EnterRun ==
    /\ run_count' = run_count + 1
    /\ pc' = "loop"
    /\ idx' = 0
    /\ err' = ""
    \* a new frame: the locals of an earlier call are gone
    /\ agent_output' = NoText
    /\ action' = PyNone
    /\ quantity' = PyNone
    /\ df' = <<>>
    /\ current_price' = 0
    /\ executed_quantity' = 0
    /\ total_value' = 0
    /\ day_steps' = <<>>
    /\ agent_calls' = 0
    /\ UNCHANGED <<config, perf, batch, portfolio, portfolio_values, pre, day_start, ncalls>>

\* A caller invokes run_backtest on the new Backtester.
RunBacktest ==
    /\ pc = "idle"
    /\ EnterRun

\* A caller invokes run_backtest again on the same Backtester, after a run
\* that completed or aborted.
RunBacktestAgain ==
    /\ pc \in {"done", "aborted"}
    /\ run_count < MaxRuns
    /\ EnterRun

\* for current_date in dates.  Every local of the body is assigned in each
\* iteration before it is read, so the values the previous iteration left are
\* dead: the model clears them when the next iteration begins.
LoopHead ==
    /\ pc = "loop"
    /\ IF idx < Len(dates)
       THEN /\ pc' = "agent"
            /\ day_start' = [cash |-> portfolio.cash, stock |-> portfolio.stock,
                             n |-> Len(portfolio_values)]
            /\ pre' = [cash |-> portfolio.cash, stock |-> portfolio.stock]
            /\ agent_output' = NoText
            /\ action' = PyNone
            /\ quantity' = PyNone
            /\ df' = <<>>
            /\ current_price' = 0
            /\ executed_quantity' = 0
            /\ total_value' = 0
            /\ day_steps' = <<>>
       ELSE /\ pc' = "done"
            /\ UNCHANGED <<day_start, pre, agent_output, action, quantity, df,
                           current_price, executed_quantity, total_value,
                           day_steps>>
    /\ UNCHANGED <<config, agent_calls, perf, batch, portfolio, portfolio_values, idx, run_count, err, ncalls>>

\* agent_output = self.agent(...): the agent returns some output
AgentReturns ==
    /\ pc = "agent"
    /\ \E out \in AgentOutputs : agent_output' = out
    /\ pc' = "parse"
    /\ day_steps' = Append(day_steps, "agent")
    /\ agent_calls' = agent_calls + 1
    /\ UNCHANGED <<config, perf, batch, portfolio, portfolio_values, idx, run_count, action,
                   quantity, df, current_price, executed_quantity, total_value,
                   err, pre, day_start, ncalls>>

\* agent_output = self.agent(...): the agent raises
AgentRaises ==
    /\ pc = "agent"
    /\ Abort("AgentError")
    /\ day_steps' = Append(day_steps, "agent")
    /\ agent_calls' = agent_calls + 1
    /\ UNCHANGED <<config, perf, batch, portfolio, portfolio_values, idx, run_count, agent_output,
                   action, quantity, df, current_price, executed_quantity,
                   total_value, pre, day_start, ncalls>>

\* A variant of ParseStep that goes on to the trade without a price fetch.
ParseStepSkippingFetch ==
    /\ pc = "parse"
    /\ action' = parse_action(agent_output).action
    /\ quantity' = parse_action(agent_output).quantity
    /\ pc' = "trade"
    /\ UNCHANGED <<config, hist, perf, batch, portfolio, portfolio_values, idx, run_count, agent_output,
                   df, current_price, executed_quantity, total_value, err, pre,
                   day_start, ncalls>>

\* action, quantity = self.parse_action(agent_output)
ParseStep ==
    /\ pc = "parse"
    /\ action' = parse_action(agent_output).action
    /\ quantity' = parse_action(agent_output).quantity
    /\ pc' = "fetch"
    /\ UNCHANGED <<config, hist, perf, batch, portfolio, portfolio_values, idx, run_count, agent_output,
                   df, current_price, executed_quantity, total_value, err, pre,
                   day_start, ncalls>>

\* A variant of FetchStep that swallows the price source's error and carries
\* on to the trade with the price it has.
FetchStepSwallowsError ==
    /\ pc = "fetch"
    /\ \E bars \in Windows :
          /\ df' = bars
          /\ current_price' = IF bars = <<>> THEN current_price ELSE bars[Len(bars)]
    /\ pc' = "trade"
    /\ day_steps' = Append(day_steps, "fetch")
    /\ UNCHANGED <<config, agent_calls, perf, batch, portfolio, portfolio_values, idx, run_count, agent_output,
                   action, quantity, executed_quantity, total_value, err, pre,
                   day_start, ncalls>>

\* df = get_price_data(...); current_price = df.iloc[-1]['close']
FetchFrom(windows) ==
    /\ pc = "fetch"
    /\ \E bars \in windows :
          /\ df' = bars
          /\ IF GetPricesRaises(bars)
             THEN Abort("ValueError") /\ UNCHANGED current_price
             ELSE current_price' = LastClose(bars) /\ pc' = "trade" /\ UNCHANGED err
    /\ day_steps' = Append(day_steps, "fetch")
    /\ UNCHANGED <<config, agent_calls, perf, batch, portfolio, portfolio_values, idx, run_count, agent_output,
                   action, quantity, executed_quantity, total_value, pre,
                   day_start, ncalls>>

FetchStep == FetchFrom(Windows)

\* executed_quantity = self.execute_trade(action, quantity, current_price)
TradeStep ==
    /\ pc = "trade"
    /\ LET r == execute_trade(portfolio, action, quantity, current_price)
       IN  /\ pre' = [cash |-> portfolio.cash, stock |-> portfolio.stock]
           /\ portfolio' = r.portfolio
           /\ IF r.raised = ""
              THEN executed_quantity' = r.ret /\ pc' = "value" /\ UNCHANGED err
              ELSE Abort(r.raised) /\ UNCHANGED executed_quantity
    /\ day_steps' = Append(day_steps, "trade")
    /\ UNCHANGED <<config, agent_calls, perf, batch, portfolio_values, idx, run_count, agent_output, action,
                   quantity, df, current_price, total_value, day_start, ncalls>>

\* total_value = ...; self.portfolio["portfolio_value"] = total_value
ValueStep ==
    /\ pc = "value"
    /\ total_value' = TotalValue(portfolio, current_price)
    /\ portfolio' = [cash |-> portfolio.cash, stock |-> portfolio.stock,
                     portfolio_value |-> TotalValue(portfolio, current_price)]
    /\ pc' = "print"
    /\ UNCHANGED <<config, hist, perf, batch, portfolio_values, idx, run_count, agent_output, action,
                   quantity, df, current_price, executed_quantity, err, pre,
                   day_start, ncalls>>

\* print(f"... {action:<6} {executed_quantity:>8} ...")
PrintStep ==
    /\ pc = "print"
    /\ IF FormatRaises(action)
       THEN Abort("TypeError")
       ELSE pc' = "record" /\ UNCHANGED err
    /\ UNCHANGED <<config, hist, perf, batch, portfolio, portfolio_values, idx, run_count, agent_output,
                   action, quantity, df, current_price, executed_quantity,
                   total_value, pre, day_start, ncalls>>

\* self.portfolio_values.append({"Date": current_date, "Portfolio Value": total_value})
RecordStep ==
    /\ pc = "record"
    /\ portfolio_values' = Append(portfolio_values,
                                  [Date |-> dates[idx + 1], Value |-> total_value])
    /\ idx' = idx + 1
    /\ pc' = "loop"
    /\ day_steps' = Append(day_steps, "record")
    /\ UNCHANGED <<config, agent_calls, perf, batch, portfolio, run_count, agent_output, action, quantity, df,
                   current_price, executed_quantity, total_value, err, pre,
                   day_start, ncalls>>

Next ==
    \/ RunBacktest
    \/ LoopHead
    \/ AgentReturns
    \/ AgentRaises
    \/ ParseStep
    \/ FetchStep
    \/ TradeStep
    \/ ValueStep
    \/ PrintStep
    \/ RecordStep

\* One run of a new Backtester.
Spec == Init /\ [][Next]_vars

\* Runs and re-runs of one Backtester.
NextRetry ==
    \/ Next
    \/ RunBacktestAgain

SpecRetry == Init /\ [][NextRetry]_vars

(***************************************************************************)
(* The agent is called with portfolio=self.portfolio: the dict of the      *)
(* Backtester itself, not a copy.  While the call runs the agent may       *)
(* assign to a key of the dict it was given.                               *)
(***************************************************************************)
AgentWritesPortfolio ==
    /\ pc = "agent"
    /\ \E c \in 0..MaxCapital :
          /\ c # portfolio.cash
          /\ portfolio' = [portfolio EXCEPT !.cash = c]
    /\ UNCHANGED <<config, hist, perf, batch, run_locals, run_state, action, quantity,
                   current_price, executed_quantity, err, pre, ncalls>>

\* One run of a new Backtester with an agent that writes to its argument.
NextAlias ==
    \/ Next
    \/ AgentWritesPortfolio

SpecAlias == Init /\ [][NextAlias]_vars

(***************************************************************************)
(* One run in which every agent call returns and every price window has a  *)
(* bar.  The interpreter keeps executing a run that can take a step.       *)
(***************************************************************************)
NonEmptyWindows == Windows \ {<<>>}

FetchStepWithBars == FetchFrom(NonEmptyWindows)

NextLive ==
    \/ RunBacktest
    \/ LoopHead
    \/ AgentReturns
    \/ ParseStep
    \/ FetchStepWithBars
    \/ TradeStep
    \/ ValueStep
    \/ PrintStep
    \/ RecordStep

SpecLive == Init /\ [][NextLive]_vars /\ WF_vars(NextLive)

(***************************************************************************)
(* Numbers of the performance analysis.  pandas computes in floating       *)
(* point; the model computes with exact fractions and keeps the two        *)
(* special values a division by zero produces there: nan (0/0) and inf.    *)
(***************************************************************************)
Abs(x) == IF x < 0 THEN -x ELSE x
Sign(x) == IF x < 0 THEN -1 ELSE IF x > 0 THEN 1 ELSE 0

RECURSIVE Gcd(_, _)
Gcd(a, b) == IF b = 0 THEN a ELSE Gcd(b, a % b)

\* n/d in lowest terms with a positive denominator, d # 0.
Frac(n, d) ==
    LET g == Gcd(Abs(n), Abs(d))
    IN  [k |-> "num", n |-> (Sign(d) * n) \div g, d |-> Abs(d) \div g]

NaN == [k |-> "nan", n |-> 0, d |-> 1]
Infinity(sign) == [k |-> "inf", n |-> sign, d |-> 1]
IsNum(x) == x.k = "num"

\* n / d as numpy divides: x/0 is inf with the sign of x, 0/0 is nan.
Divide(n, d) ==
    IF d # 0 THEN Frac(n, d)
    ELSE IF n = 0 THEN NaN
    ELSE Infinity(Sign(n))

FracAdd(a, b) ==
    LET l == (a.d \div Gcd(a.d, b.d)) * b.d
    IN  Frac(a.n * (l \div a.d) + b.n * (l \div b.d), l)

FracNeg(a) == [a EXCEPT !.n = -a.n]
FracSub(a, b) == FracAdd(a, FracNeg(b))

FracMul(a, b) ==
    LET g1 == Gcd(Abs(a.n), b.d)
        g2 == Gcd(Abs(b.n), a.d)
    IN  Frac((a.n \div g1) * (b.n \div g2), (a.d \div g2) * (b.d \div g1))

\* a / b for fractions, b # 0
FracDiv(a, b) == FracMul(a, Frac(b.d, b.n))

FracLess(a, b) == a.n * b.d < b.n * a.d

\* x - 1
MinusOne(x) == IF IsNum(x) THEN FracSub(x, Frac(1, 1)) ELSE x

\* The sum of the fractions xs[i..Len(xs)].
RECURSIVE FracSum(_, _)
FracSum(xs, i) ==
    IF i > Len(xs) THEN Frac(0, 1) ELSE FracAdd(xs[i], FracSum(xs, i + 1))

\* The least of the fractions xs[i..Len(xs)], a non-empty range.
RECURSIVE FracMin(_, _)
FracMin(xs, i) ==
    IF i = Len(xs) THEN xs[i]
    ELSE LET rest == FracMin(xs, i + 1)
         IN  IF FracLess(rest, xs[i]) THEN rest ELSE xs[i]

\* The entries of xs that are numbers: what skipna keeps when no inf occurs.
Numbers(xs) == SelectSeq(xs, IsNum)

(***************************************************************************)
(* Backtester.analyze_performance on a value series vs (the column         *)
(* "Portfolio Value" of performance_df).                                   *)
(***************************************************************************)
\* performance_df["Portfolio Value"].pct_change(): nan for the first row,
\* V_i / V_{i-1} - 1 after it.
PctChange(vs) ==
    [i \in 1..Len(vs) |-> IF i = 1 THEN NaN ELSE MinusOne(Divide(vs[i], vs[i - 1]))]

HasInf(xs) == \E i \in 1..Len(xs) : xs[i].k = "inf"

\* Series.mean(): nan is skipped; an inf makes the sum inf.
Mean(xs) ==
    LET nums == Numbers(xs)
    IN  IF HasInf(xs) THEN Infinity(1)
        ELSE IF Len(nums) = 0 THEN NaN
        ELSE FracMul(FracSum(nums, 1), Frac(1, Len(nums)))

\* The square of Series.std(): the sample variance (ddof = 1) of the
\* entries that are not nan; nan with fewer than two of them or with an inf.
Variance(xs) ==
    LET nums == Numbers(xs)
        m == Mean(xs)
        sq == [i \in 1..Len(nums) |-> FracMul(FracSub(nums[i], m), FracSub(nums[i], m))]
    IN  IF HasInf(xs) \/ Len(nums) < 2 THEN NaN
        ELSE FracMul(FracSum(sq, 1), Frac(1, Len(nums) - 1))

\* (mean / std) * 252 ** 0.5.  A finite ratio is kept as its sign and its
\* square, 252 * mean^2 / variance; a zero std divides as numpy does.
SharpeRatio(mean, variance) ==
    IF ~IsNum(variance) \/ mean.k = "nan" THEN NaN
    ELSE IF mean.k = "inf" THEN (IF variance.n = 0 THEN Infinity(1) ELSE mean)
    ELSE IF variance.n = 0
         THEN (IF mean.n = 0 THEN NaN ELSE Infinity(Sign(mean.n)))
    ELSE [k |-> "root", n |-> Sign(mean.n),
          sq |-> FracDiv(FracMul(Frac(252, 1), FracMul(mean, mean)), variance)]

\* A variant of CumMax that takes the maximum of the whole series at every row.
WholeSeriesMax(vs) ==
    [i \in 1..Len(vs) |->
        CHOOSE m \in {vs[j] : j \in 1..Len(vs)} : \A j \in 1..Len(vs) : vs[j] <= m]

\* performance_df["Portfolio Value"].cummax()
RECURSIVE CumMax(_)
CumMax(vs) ==
    IF Len(vs) <= 1 THEN vs
    ELSE LET front == CumMax(SubSeq(vs, 1, Len(vs) - 1))
             m == front[Len(front)]
         IN  Append(front, IF vs[Len(vs)] > m THEN vs[Len(vs)] ELSE m)

\* drawdown = performance_df["Portfolio Value"] / rolling_max - 1
Drawdown(vs) ==
    LET rolling_max == CumMax(vs)
    IN  [i \in 1..Len(vs) |-> MinusOne(Divide(vs[i], rolling_max[i]))]

\* drawdown.min(): nan is skipped
SeriesMin(xs) ==
    IF Len(Numbers(xs)) = 0 THEN NaN ELSE FracMin(Numbers(xs), 1)

\* (self.portfolio["portfolio_value"] - self.initial_capital) / self.initial_capital
TotalReturn(value, capital) == Divide(value - capital, capital)

\* The call: pd.DataFrame([]).set_index("Date") raises KeyError when no
\* record was appended; otherwise the three statistics and the frame returned.
analyze_performance(records, pf, capital) ==
    IF Len(records) = 0 THEN [raised |-> "KeyError"]
    ELSE LET vs == [i \in 1..Len(records) |-> records[i].Value]
             daily == PctChange(vs)
         IN  [raised |-> "",
              total_return |-> TotalReturn(pf.portfolio_value, capital),
              mean_daily_return |-> Mean(daily),
              variance |-> Variance(daily),
              sharpe_ratio |-> SharpeRatio(Mean(daily), Variance(daily)),
              drawdown |-> Drawdown(vs),
              max_drawdown |-> SeriesMin(Drawdown(vs)),
              performance_df |->
                  [i \in 1..Len(records) |->
                      [Date |-> records[i].Date, Value |-> vs[i], Return |-> daily[i]]]]

\* A variant of AnalyzePerformance that stores the value of the last record
\* as the portfolio_value before it computes.
AnalyzePerformanceStoring ==
    /\ pc \in {"done", "aborted"}
    /\ analyses < MaxAnalyses
    /\ portfolio' =
          IF Len(portfolio_values) = 0 THEN portfolio
          ELSE [cash |-> portfolio.cash, stock |-> portfolio.stock,
                portfolio_value |-> portfolio_values[Len(portfolio_values)].Value]
    /\ report' = analyze_performance(portfolio_values, portfolio', initial_capital)
    /\ analyses' = analyses + 1
    /\ UNCHANGED <<config, hist, batch, run_locals, run_state, action,
                   quantity, current_price, executed_quantity, err, pre, ncalls>>

\* A caller invokes analyze_performance on a Backtester whose run has ended.
\* The call reads self.portfolio_values, self.portfolio and
\* self.initial_capital, and assigns to none of them.
AnalyzePerformance ==
    /\ pc \in {"done", "aborted"}
    /\ analyses < MaxAnalyses
    /\ report' = analyze_performance(portfolio_values, portfolio, initial_capital)
    /\ analyses' = analyses + 1
    /\ UNCHANGED <<config, hist, batch, run_locals, run_state, portfolio, action,
                   quantity, current_price, executed_quantity, err, pre, ncalls>>

\* One run of a new Backtester, then analyses of it.
NextPerf ==
    \/ Next
    \/ AnalyzePerformance

SpecPerf == Init /\ [][NextPerf]_vars

(***************************************************************************)
(* analyze_performance as a function of the records: the Backtester of a   *)
(* completed run whose daily values are a given series.  The first value   *)
(* is the initial capital, since the first day is marked after a trade at  *)
(* that day's price; the portfolio_value is the last value.                *)
(***************************************************************************)
\* The value series of the performance scenario.
ScenarioSeries == <<100, 110, 99, 121>>

ValueSeries ==
    {vs \in SeqsUpTo(1..MaxValue, MaxLen) : Len(vs) >= 1} \cup {ScenarioSeries}

InitSeries ==
    \E vs \in ValueSeries :
        /\ initial_capital = vs[1]
        /\ start_date = 0
        /\ end_date = Len(vs) - 1
        /\ portfolio = [cash |-> vs[Len(vs)], stock |-> 0,
                        portfolio_value |-> vs[Len(vs)]]
        /\ portfolio_values = [i \in 1..Len(vs) |-> [Date |-> i - 1, Value |-> vs[i]]]
        /\ pc = "done"
        /\ idx = Len(vs)
        /\ run_count = 1
        /\ agent_output = NoText
        /\ action = PyNone
        /\ quantity = PyNone
        /\ df = <<>>
        /\ current_price = 0
        /\ executed_quantity = 0
        /\ total_value = 0
        /\ err = ""
        /\ pre = [cash |-> vs[Len(vs)], stock |-> 0]
        /\ day_start = [cash |-> vs[Len(vs)], stock |-> 0, n |-> Len(vs) - 1]
        /\ ncalls = 0
        /\ day_steps = <<>>
        /\ agent_calls = Len(vs)
        /\ report = NoReport
        /\ analyses = 0
        /\ bpc = "none"
        /\ ticker_i = 0
        /\ performance = {}
        /\ backup_performance = {}
        /\ removed = {}

NextSeries == AnalyzePerformance

SpecSeries == InitSeries /\ [][NextSeries]_vars

(***************************************************************************)
(* The batch driver of __main__: for each ticker of the list, back up and  *)
(* delete the ticker's rows, construct a Backtester, run it, analyse it    *)
(* and append the new rows.  Nothing in the loop catches an exception.     *)
(* A table is a function from its primary key <<ticker, date>> to the      *)
(* portfolio_value of the row; tickers are numbered 1..NumTickers.         *)
(***************************************************************************)
Tickers == 1..NumTickers

\* The keys of table that belong to ticker t.
RowsOf(table, t) == {k \in DOMAIN table : k[1] = t}

\* INSERT OR REPLACE INTO table the rows `keys` of `from`
InsertOrReplace(table, from, keys) ==
    [k \in DOMAIN table \cup keys |-> IF k \in keys THEN from[k] ELSE table[k]]

\* DELETE FROM table the rows `keys`
Delete(table, keys) == [k \in DOMAIN table \ keys |-> table[k]]

\* The locals of a run_backtest call that has ended are gone.
RunFrameGone ==
    /\ agent_output' = NoText
    /\ action' = PyNone
    /\ quantity' = PyNone
    /\ df' = <<>>
    /\ current_price' = 0
    /\ executed_quantity' = 0
    /\ total_value' = 0
    /\ day_steps' = <<>>
    /\ pre' = [cash |-> portfolio.cash, stock |-> portfolio.stock]
    /\ day_start' = [cash |-> portfolio.cash, stock |-> portfolio.stock,
                     n |-> Len(portfolio_values)]

\* A variant of BatchBackup that deletes the rows before it copies them.
BatchBackupAfterDelete ==
    /\ bpc = "backup"
    /\ LET mine == RowsOf(performance, ticker_i)
           emptied == Delete(performance, mine)
       IN  /\ performance' = emptied
           /\ backup_performance' =
                 InsertOrReplace(backup_performance, emptied, RowsOf(emptied, ticker_i))
           /\ removed' = removed \cup {<<k[1], k[2], performance[k]>> : k \in mine}
    /\ bpc' = "construct"
    /\ UNCHANGED <<config, hist, perf, run_locals, run_state, portfolio, action, quantity,
                   current_price, executed_quantity, err, pre, ncalls, ticker_i>>

\* backup_and_delete_historical_values(ticker): copy the ticker's rows into
\* backup_performance, delete them from performance, commit.
BatchBackup ==
    /\ bpc = "backup"
    /\ LET mine == RowsOf(performance, ticker_i)
       IN  /\ backup_performance' = InsertOrReplace(backup_performance, performance, mine)
           /\ performance' = Delete(performance, mine)
           /\ removed' = removed \cup {<<k[1], k[2], performance[k]>> : k \in mine}
    /\ bpc' = "construct"
    /\ UNCHANGED <<config, hist, perf, run_locals, run_state, portfolio, action, quantity,
                   current_price, executed_quantity, err, pre, ncalls, ticker_i>>

\* backtester = Backtester(...): a new object, as __init__ leaves it.
BatchConstruct ==
    /\ bpc = "construct"
    /\ portfolio' = [cash |-> initial_capital, stock |-> 0]
    /\ portfolio_values' = <<>>
    /\ pc' = "idle"
    /\ idx' = 0
    /\ run_count' = 0
    /\ err' = ""
    /\ agent_calls' = 0
    /\ report' = NoReport
    /\ analyses' = 0
    /\ agent_output' = NoText
    /\ action' = PyNone
    /\ quantity' = PyNone
    /\ df' = <<>>
    /\ current_price' = 0
    /\ executed_quantity' = 0
    /\ total_value' = 0
    /\ day_steps' = <<>>
    /\ pre' = [cash |-> initial_capital, stock |-> 0]
    /\ day_start' = [cash |-> initial_capital, stock |-> 0, n |-> 0]
    /\ bpc' = "run"
    /\ UNCHANGED <<config, ncalls, ticker_i, performance, backup_performance, removed>>

\* backtester.run_backtest() returns.
BatchRunReturns ==
    /\ bpc = "run"
    /\ pc = "done"
    /\ bpc' = "analyze"
    /\ RunFrameGone
    /\ UNCHANGED <<config, perf, run_state, portfolio, err, ncalls, agent_calls,
                   ticker_i, performance, backup_performance, removed>>

\* backtester.run_backtest() raises: the exception leaves the for loop and
\* the script.
BatchRunRaises ==
    /\ bpc = "run"
    /\ pc = "aborted"
    /\ bpc' = "crashed"
    /\ RunFrameGone
    /\ UNCHANGED <<config, perf, run_state, portfolio, err, ncalls, agent_calls,
                   ticker_i, performance, backup_performance, removed>>

\* performance_df = backtester.analyze_performance()
BatchAnalyze ==
    /\ bpc = "analyze"
    /\ analyses = 0
    /\ AnalyzePerformance

\* analyze_performance raised: the exception leaves the script.
BatchAnalyzeRaises ==
    /\ bpc = "analyze"
    /\ analyses = 1
    /\ report.raised # ""
    /\ bpc' = "crashed"
    /\ UNCHANGED <<config, hist, perf, run_locals, run_state, portfolio, action, quantity,
                   current_price, executed_quantity, err, pre, ncalls, ticker_i,
                   performance, backup_performance, removed>>

\* The rows of the frame after reset_index and rename, keyed for the table.
NewRows(frame, t) ==
    [k \in {<<t, frame[i].Date>> : i \in 1..Len(frame)} |->
        LET i == CHOOSE i \in 1..Len(frame) : frame[i].Date = k[2]
        IN  frame[i].Value]

\* performance_df.to_sql('performance', conn, if_exists='append'): a row
\* whose key the table holds raises IntegrityError.  Then the next ticker.
BatchSave ==
    /\ bpc = "analyze"
    /\ analyses = 1
    /\ report.raised = ""
    /\ LET rows == NewRows(report.performance_df, ticker_i)
       IN  IF DOMAIN rows \cap DOMAIN performance # {}
           THEN bpc' = "crashed" /\ UNCHANGED <<performance, ticker_i>>
           ELSE /\ performance' = InsertOrReplace(performance, rows, DOMAIN rows)
                /\ IF ticker_i < NumTickers
                   THEN ticker_i' = ticker_i + 1 /\ bpc' = "backup"
                   ELSE bpc' = "close" /\ UNCHANGED ticker_i
    /\ UNCHANGED <<config, hist, perf, run_locals, run_state, portfolio, action, quantity,
                   current_price, executed_quantity, err, pre, ncalls,
                   backup_performance, removed>>

\* conn.close()
BatchClose ==
    /\ bpc = "close"
    /\ bpc' = "closed"
    /\ UNCHANGED <<config, hist, perf, run_locals, run_state, portfolio, action, quantity,
                   current_price, executed_quantity, err, pre, ncalls, ticker_i,
                   performance, backup_performance, removed>>

\* The tables an earlier execution of the script may have left: no row, or
\* a row of every ticker in performance, dated FirstDay, and possibly an
\* older copy of the first ticker's row in backup_performance.
OldTables == {<<>>, [k \in Tickers \X {FirstDay} |-> -1]}
OldBackups == {<<>>, [k \in {<<1, FirstDay>>} |-> -2]}

\* The script starts: the arguments are parsed and the database is open.
\* No Backtester exists yet.  Every ticker gets the same capital and date
\* range; the tables do not depend on the capital, which is 1 here.
InitBatch ==
    /\ initial_capital = 1
    /\ start_date \in {FirstDay, FirstDay + 1}
    /\ end_date \in {MaxDay - 1, MaxDay}
    /\ performance \in OldTables
    /\ backup_performance \in OldBackups
    /\ removed = {}
    /\ bpc = "backup"
    /\ ticker_i = 1
    /\ pc = "unbuilt"
    /\ portfolio = [cash |-> initial_capital, stock |-> 0]
    /\ portfolio_values = <<>>
    /\ idx = 0
    /\ run_count = 0
    /\ agent_output = NoText
    /\ action = PyNone
    /\ quantity = PyNone
    /\ df = <<>>
    /\ current_price = 0
    /\ executed_quantity = 0
    /\ total_value = 0
    /\ err = ""
    /\ pre = [cash |-> initial_capital, stock |-> 0]
    /\ day_start = [cash |-> initial_capital, stock |-> 0, n |-> 0]
    /\ ncalls = 0
    /\ day_steps = <<>>
    /\ agent_calls = 0
    /\ report = NoReport
    /\ analyses = 0

NextBatch ==
    \/ BatchBackup
    \/ BatchConstruct
    \/ Next
    \/ BatchRunReturns
    \/ BatchRunRaises
    \/ BatchAnalyze
    \/ BatchAnalyzeRaises
    \/ BatchSave
    \/ BatchClose

SpecBatch == InitBatch /\ [][NextBatch]_vars

(***************************************************************************)
(* Properties of execute_trade, checked under SpecExec.  `pre` is the      *)
(* portfolio on entry to the last call; action, quantity and current_price *)
(* are its arguments.                                                      *)
(***************************************************************************)
Called == ncalls > 0
NumericQuantity == quantity.t = "num"
CashStockUnchanged == portfolio.cash = pre.cash /\ portfolio.stock = pre.stock

\* C1: from cash = initial_capital >= 0 and stock = 0, after any sequence of
\* execute_trade calls cash >= 0 and stock >= 0.
C1_NonNegativePortfolio == portfolio.cash >= 0 /\ portfolio.stock >= 0

\* C1 witness: a buy, then a sale of more than is held that empties the position.
C1_Witness ==
    /\ ncalls >= 2
    /\ ActionIs(action, "sell")
    /\ NumericQuantity /\ quantity.n > pre.stock
    /\ pre.stock > 0
    /\ portfolio.stock = 0

\* C2: a buy with quantity > 0 and quantity * price <= cash returns quantity
\* and leaves cash' = cash - quantity * price, stock' = stock + quantity.
C2_AffordableBuyFillsFully ==
    (/\ Called
     /\ ActionIs(action, "buy")
     /\ NumericQuantity /\ quantity.n > 0
     /\ quantity.n * current_price <= pre.cash)
    => /\ err = ""
       /\ executed_quantity = quantity.n
       /\ portfolio.cash = pre.cash - quantity.n * current_price
       /\ portfolio.stock = pre.stock + quantity.n

\* C2 witness: cash 3, price 1, buy 2 gives filled 2, cash 1.
C2_Witness ==
    /\ Called
    /\ ActionIs(action, "buy")
    /\ NumericQuantity /\ quantity.n = 2
    /\ current_price = 1
    /\ pre.cash = 3
    /\ executed_quantity = 2
    /\ portfolio.cash = 1

\* C3: a buy with quantity > 0 and quantity * price > cash returns
\* floor(cash / price); when that is positive stock' = stock + filled and
\* cash' = cash - filled * price >= 0, and when it is 0 cash and stock are unchanged.
C3_UnaffordableBuyIsClamped ==
    (/\ Called
     /\ ActionIs(action, "buy")
     /\ NumericQuantity /\ quantity.n > 0
     /\ quantity.n * current_price > pre.cash)
    => /\ err = ""
       \* executed_quantity is floor(pre.cash / current_price)
       /\ executed_quantity * current_price <= pre.cash
       /\ pre.cash < (executed_quantity + 1) * current_price
       /\ executed_quantity > 0 =>
             /\ portfolio.stock = pre.stock + executed_quantity
             /\ portfolio.cash = pre.cash - executed_quantity * current_price
             /\ portfolio.cash >= 0
       /\ executed_quantity = 0 => CashStockUnchanged

\* C3 witness: cash 3, price 2, buy 2 gives filled 1, cash 1.
C3_Witness ==
    /\ Called
    /\ ActionIs(action, "buy")
    /\ NumericQuantity /\ quantity.n = 2
    /\ current_price = 2
    /\ pre.cash = 3
    /\ executed_quantity = 1
    /\ portfolio.cash = 1
    /\ portfolio.stock = pre.stock + 1

\* C4: a sell with quantity > 0 returns min(quantity, stock); when that is
\* positive cash' = cash + filled * price and stock' = stock - filled >= 0,
\* and with no stock it returns 0 and changes nothing.
C4_SellIsClampedToHoldings ==
    (/\ Called
     /\ ActionIs(action, "sell")
     /\ NumericQuantity /\ quantity.n > 0)
    => /\ err = ""
       \* executed_quantity is min(quantity, pre.stock)
       /\ executed_quantity <= quantity.n
       /\ executed_quantity <= pre.stock
       /\ executed_quantity = quantity.n \/ executed_quantity = pre.stock
       /\ executed_quantity > 0 =>
             /\ portfolio.cash = pre.cash + executed_quantity * current_price
             /\ portfolio.stock = pre.stock - executed_quantity
             /\ portfolio.stock >= 0
       /\ pre.stock = 0 => (executed_quantity = 0 /\ CashStockUnchanged)

\* C4 witness: one share held, sell 2 at price 2 fills 1.
C4_Witness ==
    /\ Called
    /\ ActionIs(action, "sell")
    /\ NumericQuantity /\ quantity.n = 2
    /\ current_price = 2
    /\ pre.stock = 1
    /\ executed_quantity = 1
    /\ portfolio.cash = pre.cash + 2
    /\ portfolio.stock = 0

\* C5: 'hold', any action with a quantity <= 0, and an action string other
\* than 'buy'/'sell' return 0 and leave cash and stock unchanged.
C5_NoOpCallsChangeNothing ==
    (/\ Called
     /\ \/ ActionIs(action, "hold")
        \/ (NumericQuantity /\ quantity.n <= 0)
        \/ (action.t = "str" /\ action.s \notin {"buy", "sell"}))
    => /\ err = ""
       /\ executed_quantity = 0
       /\ CashStockUnchanged

\* C5 witness: with stock held and cash left, a buy of -1 returns 0.
C5_Witness ==
    /\ Called
    /\ ActionIs(action, "buy")
    /\ NumericQuantity /\ quantity.n = -1
    /\ pre.stock > 0 /\ pre.cash > 0
    /\ executed_quantity = 0
    /\ CashStockUnchanged

(***************************************************************************)
(* Properties of parse_action and run_backtest.                            *)
(***************************************************************************)
\* The output decodes into an object with an action in {buy, sell, hold}
\* and a numeric quantity.
DecodesToDecision(output) ==
    LET d == JsonLoads(output)
    IN  /\ d.raised = ""
        /\ d.t = "obj"
        /\ Subscript(d, "action").raised = ""
        /\ Subscript(d, "quantity").raised = ""
        /\ Subscript(d, "action").v \in {PyStr("buy"), PyStr("sell"), PyStr("hold")}
        /\ Subscript(d, "quantity").v.t = "num"

\* The current day's decision has been parsed.
Parsed == pc \in {"fetch", "trade", "value", "print", "record"}

LastRecord == portfolio_values[Len(portfolio_values)]

\* C6: every output that does not decode into an object with an action in
\* {buy, sell, hold} and a numeric quantity makes parse_action return
\* ('hold', 0).
C6_MalformedParsesToHold ==
    (Parsed /\ ~DecodesToDecision(agent_output))
    => (action = PyStr("hold") /\ quantity = PyNum(0))

\* C7: the records are strictly ascending by date, and a completed run
\* leaves exactly one record per business day, also when run_backtest is
\* invoked again on the same Backtester.
C7_OneRecordPerDayAscending ==
    /\ \A i, j \in 1..Len(portfolio_values) :
          i < j => portfolio_values[i].Date < portfolio_values[j].Date
    /\ pc = "done" => [i \in 1..Len(portfolio_values) |-> portfolio_values[i].Date] = dates

C9_RecordIsMarkedValue ==
    (pc \in {"loop", "done"} /\ idx > 0)
    => /\ LastRecord.Date = dates[idx]
       /\ LastRecord.Value = portfolio.cash + portfolio.stock * current_price
       /\ "portfolio_value" \in DOMAIN portfolio
       /\ portfolio.portfolio_value = LastRecord.Value

\* C9 witness: a completed two-day run that holds stock marked at price 2,
\* worth more than the initial capital.
C9_Witness ==
    /\ pc = "done"
    /\ idx = 2
    /\ portfolio.stock > 0
    /\ current_price = 2
    /\ LastRecord.Value > initial_capital
    /\ portfolio.portfolio_value = LastRecord.Value

\* C10: a day whose decision is malformed never aborts the run.
C10_MalformedNeverAborts ==
    ~(pc = "aborted" /\ err = "TypeError" /\ ~DecodesToDecision(agent_output))

(***************************************************************************)
(* Properties of analyze_performance.                                      *)
(***************************************************************************)
Analyzed == analyses > 0 /\ report.raised = ""
Values == [i \in 1..Len(portfolio_values) |-> portfolio_values[i].Value]
One == Frac(1, 1)

\* max(V_1..V_i)
RunningMax(i) ==
    CHOOSE m \in {Values[j] : j \in 1..i} : \A j \in 1..i : Values[j] <= m

\* C11: for records of positive values, the drawdown of row i is
\* V_i / max(V_1..V_i) - 1, which is <= 0 and is 0 at every new running
\* maximum; max_drawdown is the least drawdown, hence <= 0; the series
\* [100, 110, 99, 121] has the drawdowns [0, 0, -1/10, 0] and the
\* max_drawdown -1/10.  Checked under SpecSeries.
C11_DrawdownFromRunningMax ==
    (Analyzed /\ \A i \in 1..Len(Values) : Values[i] > 0) =>
        /\ Len(report.drawdown) = Len(Values)
        /\ \A i \in 1..Len(Values) :
              /\ report.drawdown[i] = FracSub(Frac(Values[i], RunningMax(i)), One)
              /\ report.drawdown[i].n <= 0
              /\ Values[i] = RunningMax(i) => report.drawdown[i] = Frac(0, 1)
        /\ \E i \in 1..Len(Values) : report.max_drawdown = report.drawdown[i]
        /\ \A i \in 1..Len(Values) : ~FracLess(report.drawdown[i], report.max_drawdown)
        /\ report.max_drawdown.n <= 0
        /\ Values = ScenarioSeries =>
              /\ report.drawdown = <<Frac(0, 1), Frac(0, 1), Frac(-1, 10), Frac(0, 1)>>
              /\ report.max_drawdown = Frac(-1, 10)

C11_Witness ==
    /\ Analyzed
    /\ Values = ScenarioSeries
    /\ report.max_drawdown = Frac(-1, 10)

\* The daily returns V_i / V_{i-1} - 1 of positive values are all equal
\* (also when there is one of them, or none).
AllReturnsEqual ==
    \A i, j \in 2..Len(Values) : Values[i] * Values[j - 1] = Values[j] * Values[i - 1]

\* C12: when the daily returns of the records are all equal (a single
\* record, a constant series, equal returns) the Sharpe ratio is the
\* undefined value nan, neither 0 nor an infinity; otherwise it is
\* mean / std * sqrt(252), a finite number.  Checked under SpecSeries.
C12_ZeroDeviationSharpeIsUndefined ==
    Analyzed =>
        IF AllReturnsEqual THEN report.sharpe_ratio.k = "nan"
        ELSE /\ report.sharpe_ratio.k = "root"
             /\ report.sharpe_ratio.n = Sign(report.mean_daily_return.n)
             /\ FracMul(report.sharpe_ratio.sq, report.variance)
                    = FracMul(Frac(252, 1),
                              FracMul(report.mean_daily_return, report.mean_daily_return))

C14_TotalReturnFromLastRecord ==
    Analyzed =>
        report.total_return = Divide(LastRecord.Value - initial_capital, initial_capital)

(***************************************************************************)
(* Properties of the steps of a day.                                       *)
(***************************************************************************)
LastStep == IF day_steps = <<>> THEN "" ELSE day_steps[Len(day_steps)]

\* C19: a trade conserves the value of the portfolio at the execution
\* price: after execute_trade returned, cash + stock * current_price is what
\* it was before the call, whatever action and quantity were parsed (and a
\* call that raises has changed nothing); so the value recorded for a day is
\* the pre-trade holdings marked at the day's price.  Checked under Spec.
C19_TradeConservesValue ==
    /\ pc \in {"value", "print", "record"} =>
          TotalValue(portfolio, current_price) = TotalValue(pre, current_price)
    /\ (pc = "aborted" /\ LastStep = "trade") => CashStockUnchanged
    /\ (pc = "loop" /\ LastStep = "record") =>
          LastRecord.Value = TotalValue(pre, current_price)

C19_Witness ==
    /\ pc = "loop"
    /\ LastStep = "record"
    /\ executed_quantity > 0
    /\ portfolio.stock < pre.stock
    /\ LastRecord.Value = TotalValue(pre, current_price)

IsPrefix(p, q) == Len(p) <= Len(q) /\ p = SubSeq(q, 1, Len(p))

\* idx days are over, and each of them has its record, in order.
EarlierDaysRecorded ==
    [i \in 1..Len(portfolio_values) |-> portfolio_values[i].Date]
        = SubSeq(dates, 1, idx)

C17_OnlyTradeChangesCashStock ==
    /\ pc \in {"agent", "parse", "fetch", "trade"} =>
          /\ portfolio.cash = day_start.cash
          /\ portfolio.stock = day_start.stock
    /\ pc \in {"value", "print", "record"} =>
          execute_trade(pre, action, quantity, current_price).portfolio
              = [cash |-> portfolio.cash, stock |-> portfolio.stock]

\* C18: when every agent call returns and every window has a bar, the run
\* does not end with an error, and when it has ended the agent has been
\* invoked once for each business day of `dates`; while an agent call has
\* not returned no record is appended for its day.  Checked under SpecLive.
C18_RunEndsAfterOneCallPerDay ==
    /\ pc # "aborted"
    /\ pc = "done" => agent_calls = Len(dates)
    /\ pc = "agent" => Len(portfolio_values) = idx

(***************************************************************************)
(* Properties of the batch driver, checked under SpecBatch.                *)
(***************************************************************************)
\* The rows performance holds for ticker t.
SavedRows(t) == [k \in RowsOf(performance, t) |-> performance[k]]

\* C15: an error raised by one ticker's run_backtest does not stop the
\* batch: the script does not end on it while a later ticker of the list is
\* still to be backed up, simulated, analysed and persisted.
C15_BatchSurvivesFatalRun ==
    (bpc = "crashed" /\ pc = "aborted") => ticker_i = NumTickers

\* C20: every row deleted from performance is in backup_performance, in
\* every state of the batch (also after a run raised); from the start of a
\* ticker's run until its rows are saved performance holds no row of the
\* ticker; and when a ticker's iteration has completed performance holds for
\* it exactly the records of the new run.
C20_BackupBeforeDelete ==
    /\ \A r \in removed :
          /\ <<r[1], r[2]>> \in DOMAIN backup_performance
          /\ backup_performance[<<r[1], r[2]>>] = r[3]
    /\ bpc \in {"construct", "run", "analyze", "crashed"} =>
          RowsOf(performance, ticker_i) = {}
    /\ (bpc = "backup" /\ ticker_i > 1) =>
          SavedRows(ticker_i - 1) = NewRows(portfolio_values, ticker_i - 1)
    /\ bpc \in {"close", "closed"} =>
          SavedRows(ticker_i) = NewRows(portfolio_values, ticker_i)

\* C20 witness: both tickers had rows, the first ticker's new rows are saved
\* and the second ticker's run raised after its rows were deleted.
C20_Witness ==
    /\ bpc = "crashed" /\ pc = "aborted"
    /\ ticker_i = 2
    /\ removed = {<<1, FirstDay, -1>>, <<2, FirstDay, -1>>}
    /\ backup_performance[<<1, FirstDay>>] = -1
    /\ Len(portfolio_values) = 1
    /\ DOMAIN SavedRows(1) = {<<1, FirstDay>>, <<1, MaxDay>>}

====
